---- MODULE Spec2Model ----
(***************************************************************************)
(* Model of the network topology program (src/__main__.py): the subnet     *)
(* CIDR helper get_subnet_cidr, and create_vpc_environment run for the dev  *)
(* and prod environments, as the sequence of resource declarations and      *)
(* exports it hands to the provisioning engine.                             *)
(*                                                                          *)
(* A CIDR text "a.b.c.d/p" is the record [o |-> <<a, b, c, d>>, p |-> p].  *)
(* A parsed network keeps its 32-bit address as hi (the upper 24 bits) and  *)
(* lo (the last octet), so that every number stays inside TLC's integers.   *)
(***************************************************************************)
EXTENDS Integers, Sequences, FiniteSets, TLC

VARIABLES
    pc,         \* position of the program: the next statement to run
    env,        \* index of the environment being built (1 = dev, 2 = prod)
    zones,      \* local variable zones of the running create_vpc_environment
    resources,  \* the resources declared to the engine, in declaration order
    exports,    \* the pulumi.export calls made, in order
    error,      \* the exception that ended the program and the statement that
                \* raised it (its traceback), or NoError
    vpc_cidr,   \* the base block under test of get_subnet_cidr
    results     \* subnet_offset -> outcome of get_subnet_cidr(vpc_cidr, offset)

vars == <<pc, env, zones, resources, exports, error, vpc_cidr, results>>

buildVars == <<pc, env, zones, resources, exports, error>>

----------------------------------------------------------------------------
(* Bounds of the model *)

MaxZones == 2

MaxCalls == 4

----------------------------------------------------------------------------
(* get_subnet_cidr *)

Pow2(n) == 2 ^ n

Cidr(a, b, c, d, p) == [o |-> <<a, b, c, d>>, p |-> p]

Raise(exc) == [kind |-> exc]

\* ipaddress.IPv4Network(text), strict: octets in 0..255, prefix in 0..32,
\* no host bits set; otherwise a ValueError (AddressValueError,
\* NetmaskValueError and the host-bits ValueError are all ValueErrors).
IPv4Network(text) ==
    LET o == text.o
        hi == o[1] * 65536 + o[2] * 256 + o[3]
        lo == o[4]
        p == text.p
    IN  IF \E i \in 1..4 : o[i] < 0 \/ o[i] > 255 THEN Raise("ValueError")
        ELSE IF p < 0 \/ p > 32 THEN Raise("ValueError")
        ELSE IF p <= 24 /\ (lo # 0 \/ hi % Pow2(24 - p) # 0) THEN Raise("ValueError")
        ELSE IF p > 24 /\ lo % Pow2(32 - p) # 0 THEN Raise("ValueError")
        ELSE [kind |-> "ok", hi |-> hi, lo |-> lo, p |-> p]

\* list(network.subnets(new_prefix=24)): the network itself for a /32, a
\* ValueError for a prefix longer than 24, else the /24 blocks in ascending
\* address order.
subnets(network) ==
    IF network.p = 32 THEN [kind |-> "ok", list |-> <<network>>]
    ELSE IF 24 < network.p THEN Raise("ValueError")
    ELSE [kind |-> "ok",
          list |-> [i \in 1..Pow2(24 - network.p) |->
                      [kind |-> "ok", hi |-> network.hi + (i - 1), lo |-> 0, p |-> 24]]]

\* Mutant of ListIndex: the offset taken as one-based.
ListIndex_OneBased(list, k) ==
    IF 1 <= k /\ k <= Len(list) THEN [kind |-> "ok", value |-> list[k]]
    ELSE Raise("IndexError")

\* list[k] of Python: zero-based, a negative k counts from the end, and an
\* index outside -len..len-1 is an IndexError.
ListIndex(list, k) ==
    IF 0 <= k /\ k < Len(list) THEN [kind |-> "ok", value |-> list[k + 1]]
    ELSE IF k < 0 /\ -Len(list) <= k THEN [kind |-> "ok", value |-> list[Len(list) + k + 1]]
    ELSE Raise("IndexError")

\* Mutant of Str: the third octet is not written.
Str_DropsThirdOctet(network) ==
    Cidr(network.hi \div 65536, (network.hi \div 256) % 256, 0,
         network.lo, network.p)

\* str(network): back to dotted-quad text with the prefix length.
Str(network) ==
    Cidr(network.hi \div 65536, (network.hi \div 256) % 256, network.hi % 256,
         network.lo, network.p)

get_subnet_cidr(cidr, subnet_offset) ==
    LET network == IPv4Network(cidr)
    IN  IF network.kind # "ok" THEN network
        ELSE LET subnet == subnets(network)
             IN  IF subnet.kind # "ok" THEN subnet
                 ELSE LET item == ListIndex(subnet.list, subnet_offset)
                      IN  IF item.kind # "ok" THEN item
                          ELSE [kind |-> "ok", value |-> Str(item.value)]

----------------------------------------------------------------------------
(* Inputs of the get_subnet_cidr specification *)

Valid16Blocks ==
    { Cidr(10, 0, 0, 0, 16), Cidr(10, 1, 0, 0, 16), Cidr(172, 16, 0, 0, 16),
      Cidr(192, 168, 0, 0, 16), Cidr(255, 255, 0, 0, 16), Cidr(0, 0, 0, 0, 16) }

OtherBlocks ==
    { Cidr(10, 0, 0, 0, 22), Cidr(10, 0, 2, 0, 23), Cidr(10, 0, 7, 0, 24),
      Cidr(10, 0, 0, 128, 25), Cidr(10, 0, 0, 1, 32),
      Cidr(10, 0, 0, 1, 16), Cidr(10, 0, 0, 0, 33), Cidr(256, 0, 0, 0, 16) }

Blocks == Valid16Blocks \cup OtherBlocks

Offsets == { -257, -256, -1, 0, 1, 2, 3, 4, 255, 256 }

NoCidr == [o |-> <<>>, p |-> -1]

NoError == [type |-> "none", at |-> ""]

InitCidr ==
    /\ pc = "vpc"
    /\ env = 1
    /\ zones = <<>>
    /\ resources = <<>>
    /\ exports = <<>>
    /\ error = NoError
    /\ vpc_cidr \in Blocks
    /\ results = << >>

\* One call get_subnet_cidr(vpc_cidr, k); its outcome is recorded under k.
CallGetSubnetCidr ==
    /\ Cardinality(DOMAIN results) < MaxCalls
    /\ \E k \in Offsets \ DOMAIN results :
         results' = [j \in DOMAIN results \cup {k} |->
                       IF j = k THEN get_subnet_cidr(vpc_cidr, k) ELSE results[j]]
    /\ UNCHANGED <<buildVars, vpc_cidr>>

NextCidr == CallGetSubnetCidr

SpecCidr == InitCidr /\ [][NextCidr]_vars

----------------------------------------------------------------------------
(* The program: create_vpc_environment for dev, then for prod *)

Environments ==
    << [name |-> "bwiseth_dev", cidr_block |-> Cidr(10, 0, 0, 0, 16)],
       [name |-> "bwiseth_prod", cidr_block |-> Cidr(10, 1, 0, 0, 16)] >>

name == Environments[env].name

cidr_block == Environments[env].cidr_block

\* The zone names the availability-zone query can return: names of one
\* region, each at most once, in any order.
ZoneNames == {"zone-a", "zone-b", "zone-c"}

ZoneLists ==
    { z \in UNION { [1..n -> ZoneNames] : n \in 0..MaxZones } :
        \A i, j \in 1..Len(z) : i # j => z[i] # z[j] }

AnyCidr == Cidr(0, 0, 0, 0, 0)

common_tags(e) == [Environment |-> e, Project |-> "bwiseth"]

\* {**common_tags(name), "Name": n}
Tags(e, n) == ("Name" :> n) @@ common_tags(e)

NoTags == [x \in {} |-> ""]

\* f"{name}-<suffix>"
LogicalName(e, suffix) == e \o "-" \o suffix

\* Mutant of ExportKey: the environment name is left out of the key.
ExportKey_NoPrefix(e, suffix) == suffix

\* f"{name}_<suffix>"
ExportKey(e, suffix) == e \o "_" \o suffix

\* resource.id: the handle of the declared resource
Id(logical) == logical

Ref(attr, target) == [attr |-> attr, target |-> target]

\* A declaration with every argument the program does not pass left empty;
\* owner records the create_vpc_environment call that made it.
Resource(kind, logical) ==
    [kind |-> kind, name |-> logical, owner |-> env, refs |-> {}, depends_on |-> {},
     cidr_block |-> NoCidr, availability_zone |-> "",
     map_public_ip_on_launch |-> FALSE, tags |-> NoTags,
     routes |-> <<>>, destination_cidr_block |-> NoCidr,
     ingress |-> <<>>, egress |-> <<>>]

Rule(protocol, from_port, to_port, cidr_blocks) ==
    [protocol |-> protocol, from_port |-> from_port, to_port |-> to_port,
     cidr_blocks |-> cidr_blocks]

EgressAll == << Rule("-1", 0, 0, <<AnyCidr>>) >>

\* An exception leaves create_vpc_environment and the module: nothing
\* catches it, so the program ends with it.
Throw(exc) ==
    /\ pc' = "aborted"
    /\ error' = [type |-> exc, at |-> pc]
    /\ UNCHANGED <<env, zones, resources, exports>>

\* A resource constructor: the engine registers the declaration, or the
\* constructor raises the library's own exception.
Declare(res, next) ==
    \/ /\ resources' = Append(resources, res)
       /\ pc' = next
       /\ UNCHANGED <<env, zones, exports, error>>
    \/ Throw("LibraryError")

Export(key, value, next) ==
    /\ exports' = Append(exports, [key |-> key, value |-> value, owner |-> env])
    /\ pc' = next
    /\ UNCHANGED <<env, zones, resources, error>>

Init ==
    /\ pc = "vpc"
    /\ env = 1
    /\ zones = <<>>
    /\ resources = <<>>
    /\ exports = <<>>
    /\ error = NoError
    /\ vpc_cidr = NoCidr
    /\ results = << >>

DeclareVpc ==
    /\ pc = "vpc"
    /\ Declare([Resource("Vpc", LogicalName(name, "vpc")) EXCEPT
                  !.cidr_block = cidr_block,
                  !.tags = Tags(name, LogicalName(name, "vpc"))],
               "zones")
    /\ UNCHANGED <<vpc_cidr, results>>

GetAvailabilityZones ==
    /\ pc = "zones"
    /\ zones' \in ZoneLists
    /\ pc' = "public_subnet1"
    /\ UNCHANGED <<env, resources, exports, error, vpc_cidr, results>>

\* aws.ec2.Subnet(...): the arguments are evaluated left to right, first
\* get_subnet_cidr(cidr_block, offset), then zones[zone], then the constructor.
DeclareSubnet(suffix, offset, zone, public, next) ==
    LET cidr == get_subnet_cidr(cidr_block, offset)
    IN  IF cidr.kind # "ok" THEN Throw(cidr.kind)
        ELSE IF zone >= Len(zones) THEN Throw("IndexError")
        ELSE Declare([Resource("Subnet", LogicalName(name, suffix)) EXCEPT
                        !.refs = {Ref("vpc_id", Id(LogicalName(name, "vpc")))},
                        !.cidr_block = cidr.value,
                        !.availability_zone = zones[zone + 1],
                        !.map_public_ip_on_launch = public,
                        !.tags = Tags(name, LogicalName(name, suffix))],
                     next)

DeclarePublicSubnet1 ==
    /\ pc = "public_subnet1"
    /\ DeclareSubnet("public-subnet1", 1, 0, TRUE, "public_subnet2")
    /\ UNCHANGED <<vpc_cidr, results>>

DeclarePublicSubnet2 ==
    /\ pc = "public_subnet2"
    /\ DeclareSubnet("public-subnet2", 2, 1, TRUE, "private_subnet1")
    /\ UNCHANGED <<vpc_cidr, results>>

DeclarePrivateSubnet1 ==
    /\ pc = "private_subnet1"
    /\ DeclareSubnet("private-subnet1", 3, 0, FALSE, "private_subnet2")
    /\ UNCHANGED <<vpc_cidr, results>>

DeclarePrivateSubnet2 ==
    /\ pc = "private_subnet2"
    /\ DeclareSubnet("private-subnet2", 4, 1, FALSE, "igw")
    /\ UNCHANGED <<vpc_cidr, results>>

DeclareInternetGateway ==
    /\ pc = "igw"
    /\ Declare([Resource("InternetGateway", LogicalName(name, "igw")) EXCEPT
                  !.refs = {Ref("vpc_id", Id(LogicalName(name, "vpc")))},
                  !.tags = Tags(name, LogicalName(name, "igw"))],
               "eip1")
    /\ UNCHANGED <<vpc_cidr, results>>

DeclareEip1 ==
    /\ pc = "eip1"
    /\ Declare(Resource("Eip", LogicalName(name, "eip1")), "eip2")
    /\ UNCHANGED <<vpc_cidr, results>>

DeclareEip2 ==
    /\ pc = "eip2"
    /\ Declare(Resource("Eip", LogicalName(name, "eip2")), "nat_gateway1")
    /\ UNCHANGED <<vpc_cidr, results>>

\* Mutant of NatGateway: the explicit dependency on the Internet Gateway is
\* left out.
NatGateway_NoDependsOn(suffix, subnet, eip) ==
    [Resource("NatGateway", LogicalName(name, suffix)) EXCEPT
       !.refs = {Ref("subnet_id", Id(LogicalName(name, subnet))),
                 Ref("allocation_id", Id(LogicalName(name, eip)))},
       !.tags = Tags(name, LogicalName(name, suffix))]

NatGateway(suffix, subnet, eip) ==
    [Resource("NatGateway", LogicalName(name, suffix)) EXCEPT
       !.refs = {Ref("subnet_id", Id(LogicalName(name, subnet))),
                 Ref("allocation_id", Id(LogicalName(name, eip)))},
       !.depends_on = {LogicalName(name, "igw")},
       !.tags = Tags(name, LogicalName(name, suffix))]

DeclareNatGateway1 ==
    /\ pc = "nat_gateway1"
    /\ Declare(NatGateway("nat-gateway1", "public-subnet1", "eip1"), "nat_gateway2")
    /\ UNCHANGED <<vpc_cidr, results>>

\* Mutant of DeclareNatGateway2: the second NAT Gateway is put in the first
\* public subnet.
DeclareNatGateway2_SameSubnet ==
    /\ pc = "nat_gateway2"
    /\ Declare(NatGateway("nat-gateway2", "public-subnet1", "eip2"), "public_rt")
    /\ UNCHANGED <<vpc_cidr, results>>

DeclareNatGateway2 ==
    /\ pc = "nat_gateway2"
    /\ Declare(NatGateway("nat-gateway2", "public-subnet2", "eip2"), "public_rt")
    /\ UNCHANGED <<vpc_cidr, results>>

DeclarePublicRouteTable ==
    /\ pc = "public_rt"
    /\ Declare([Resource("RouteTable", LogicalName(name, "public-rt")) EXCEPT
                  !.refs = {Ref("vpc_id", Id(LogicalName(name, "vpc"))),
                            Ref("gateway_id", Id(LogicalName(name, "igw")))},
                  !.routes = << [cidr_block |-> AnyCidr,
                                 gateway_id |-> Id(LogicalName(name, "igw"))] >>,
                  !.tags = Tags(name, LogicalName(name, "public-rt"))],
               "private_rt")
    /\ UNCHANGED <<vpc_cidr, results>>

DeclarePrivateRouteTable ==
    /\ pc = "private_rt"
    /\ Declare([Resource("RouteTable", LogicalName(name, "private-rt")) EXCEPT
                  !.refs = {Ref("vpc_id", Id(LogicalName(name, "vpc")))},
                  !.tags = Tags(name, LogicalName(name, "private-rt"))],
               "public_rt_assoc1")
    /\ UNCHANGED <<vpc_cidr, results>>

RouteTableAssociation(suffix, subnet, table) ==
    [Resource("RouteTableAssociation", LogicalName(name, suffix)) EXCEPT
       !.refs = {Ref("subnet_id", Id(LogicalName(name, subnet))),
                 Ref("route_table_id", Id(LogicalName(name, table)))}]

DeclarePublicAssoc1 ==
    /\ pc = "public_rt_assoc1"
    /\ Declare(RouteTableAssociation("public-rt-assoc1", "public-subnet1", "public-rt"),
               "public_rt_assoc2")
    /\ UNCHANGED <<vpc_cidr, results>>

DeclarePublicAssoc2 ==
    /\ pc = "public_rt_assoc2"
    /\ Declare(RouteTableAssociation("public-rt-assoc2", "public-subnet2", "public-rt"),
               "private_rt_assoc1")
    /\ UNCHANGED <<vpc_cidr, results>>

DeclarePrivateAssoc1 ==
    /\ pc = "private_rt_assoc1"
    /\ Declare(RouteTableAssociation("private-rt-assoc1", "private-subnet1", "private-rt"),
               "private_rt_assoc2")
    /\ UNCHANGED <<vpc_cidr, results>>

\* Mutant of DeclarePrivateAssoc2: the second private subnet is associated
\* with the public route table.
DeclarePrivateAssoc2_PublicTable ==
    /\ pc = "private_rt_assoc2"
    /\ Declare(RouteTableAssociation("private-rt-assoc2", "private-subnet2", "public-rt"),
               "private_route1")
    /\ UNCHANGED <<vpc_cidr, results>>

DeclarePrivateAssoc2 ==
    /\ pc = "private_rt_assoc2"
    /\ Declare(RouteTableAssociation("private-rt-assoc2", "private-subnet2", "private-rt"),
               "private_route1")
    /\ UNCHANGED <<vpc_cidr, results>>

Route(suffix, nat) ==
    [Resource("Route", LogicalName(name, suffix)) EXCEPT
       !.refs = {Ref("route_table_id", Id(LogicalName(name, "private-rt"))),
                 Ref("nat_gateway_id", Id(LogicalName(name, nat)))},
       !.destination_cidr_block = AnyCidr,
       !.depends_on = {LogicalName(name, nat)}]

DeclarePrivateRoute1 ==
    /\ pc = "private_route1"
    /\ Declare(Route("private-route1", "nat-gateway1"), "private_route2")
    /\ UNCHANGED <<vpc_cidr, results>>

DeclarePrivateRoute2 ==
    /\ pc = "private_route2"
    /\ Declare(Route("private-route2", "nat-gateway2"), "public_sg")
    /\ UNCHANGED <<vpc_cidr, results>>

DeclarePublicSecurityGroup ==
    /\ pc = "public_sg"
    /\ Declare([Resource("SecurityGroup", LogicalName(name, "public-sg")) EXCEPT
                  !.refs = {Ref("vpc_id", Id(LogicalName(name, "vpc")))},
                  !.ingress = << Rule("tcp", 80, 80, <<AnyCidr>>),
                                 Rule("tcp", 443, 443, <<AnyCidr>>) >>,
                  !.egress = EgressAll,
                  !.tags = Tags(name, LogicalName(name, "public-sg"))],
               "private_sg")
    /\ UNCHANGED <<vpc_cidr, results>>

\* Mutant of DeclarePrivateSecurityGroup: the private ingress rule is open
\* to every source.
DeclarePrivateSecurityGroup_AnySource ==
    /\ pc = "private_sg"
    /\ Declare([Resource("SecurityGroup", LogicalName(name, "private-sg")) EXCEPT
                  !.refs = {Ref("vpc_id", Id(LogicalName(name, "vpc")))},
                  !.ingress = << Rule("tcp", 0, 65535, <<AnyCidr>>) >>,
                  !.egress = EgressAll,
                  !.tags = Tags(name, LogicalName(name, "private-sg"))],
               "export_vpc_id")
    /\ UNCHANGED <<vpc_cidr, results>>

DeclarePrivateSecurityGroup ==
    /\ pc = "private_sg"
    /\ Declare([Resource("SecurityGroup", LogicalName(name, "private-sg")) EXCEPT
                  !.refs = {Ref("vpc_id", Id(LogicalName(name, "vpc")))},
                  !.ingress = << Rule("tcp", 0, 65535, <<cidr_block>>) >>,
                  !.egress = EgressAll,
                  !.tags = Tags(name, LogicalName(name, "private-sg"))],
               "export_vpc_id")
    /\ UNCHANGED <<vpc_cidr, results>>

ExportVpcId ==
    /\ pc = "export_vpc_id"
    /\ Export(ExportKey(name, "vpc_id"), <<Id(LogicalName(name, "vpc"))>>,
              "export_public_subnets")
    /\ UNCHANGED <<vpc_cidr, results>>

ExportPublicSubnets ==
    /\ pc = "export_public_subnets"
    /\ Export(ExportKey(name, "public_subnets"),
              <<Id(LogicalName(name, "public-subnet1")),
                Id(LogicalName(name, "public-subnet2"))>>,
              "export_private_subnets")
    /\ UNCHANGED <<vpc_cidr, results>>

ExportPrivateSubnets ==
    /\ pc = "export_private_subnets"
    /\ Export(ExportKey(name, "private_subnets"),
              <<Id(LogicalName(name, "private-subnet1")),
                Id(LogicalName(name, "private-subnet2"))>>,
              "export_nat_gateway_ids")
    /\ UNCHANGED <<vpc_cidr, results>>

ExportNatGatewayIds ==
    /\ pc = "export_nat_gateway_ids"
    /\ Export(ExportKey(name, "nat_gateway_ids"),
              <<Id(LogicalName(name, "nat-gateway1")),
                Id(LogicalName(name, "nat-gateway2"))>>,
              "returned")
    /\ UNCHANGED <<vpc_cidr, results>>

\* create_vpc_environment("bwiseth_prod", "10.1.0.0/16") after dev returned
CreateProdEnvironment ==
    /\ pc = "returned"
    /\ env = 1
    /\ env' = 2
    /\ zones' = <<>>
    /\ pc' = "vpc"
    /\ UNCHANGED <<resources, exports, error, vpc_cidr, results>>

\* the end of the module, after prod returned
Finish ==
    /\ pc = "returned"
    /\ env = 2
    /\ pc' = "done"
    /\ UNCHANGED <<env, zones, resources, exports, error, vpc_cidr, results>>

Next ==
    \/ DeclareVpc
    \/ GetAvailabilityZones
    \/ DeclarePublicSubnet1
    \/ DeclarePublicSubnet2
    \/ DeclarePrivateSubnet1
    \/ DeclarePrivateSubnet2
    \/ DeclareInternetGateway
    \/ DeclareEip1
    \/ DeclareEip2
    \/ DeclareNatGateway1
    \/ DeclareNatGateway2
    \/ DeclarePublicRouteTable
    \/ DeclarePrivateRouteTable
    \/ DeclarePublicAssoc1
    \/ DeclarePublicAssoc2
    \/ DeclarePrivateAssoc1
    \/ DeclarePrivateAssoc2
    \/ DeclarePrivateRoute1
    \/ DeclarePrivateRoute2
    \/ DeclarePublicSecurityGroup
    \/ DeclarePrivateSecurityGroup
    \/ ExportVpcId
    \/ ExportPublicSubnets
    \/ ExportPrivateSubnets
    \/ ExportNatGatewayIds
    \/ CreateProdEnvironment
    \/ Finish

Spec == Init /\ [][Next]_vars

----------------------------------------------------------------------------
(* Properties of get_subnet_cidr, checked under SpecCidr *)

\* The base block is a well-formed /16: four octets in range, no host bits.
IsValid16(block) ==
    /\ block.p = 16
    /\ \A i \in 1..4 : block.o[i] \in 0..255
    /\ block.o[3] = 0
    /\ block.o[4] = 0

\* A block of prefix <= 24 covers the addresses whose upper 24 bits lie in
\* First24(block)..Last24(block).
First24(block) == block.o[1] * 65536 + block.o[2] * 256 + block.o[3]

Last24(block) == First24(block) + 2 ^ (24 - block.p) - 1

Disjoint(x, y) == Last24(x) < First24(y) \/ Last24(y) < First24(x)

Within(x, block) == First24(block) <= First24(x) /\ Last24(x) <= Last24(block)

\* The number of /24 subnets derivable from a well-formed block of prefix <= 24.
DerivableSubnets(block) == 2 ^ (24 - block.p)

WellFormedUpTo24(block) ==
    /\ block.p \in 0..24
    /\ \A i \in 1..4 : block.o[i] \in 0..255
    /\ block.o[4] = 0
    /\ First24(block) % DerivableSubnets(block) = 0

OutOfRange(block, k) == k < 0 \/ k >= DerivableSubnets(block)

\* C2: for every base block and every offset outside the range of its
\* derivable /24 subnets (k >= their number, or k < 0), get_subnet_cidr fails
\* with an AllocationError and returns no subnet.
C2_OutOfRangeRaisesAllocationError ==
    \A k \in DOMAIN results :
        (WellFormedUpTo24(vpc_cidr) /\ OutOfRange(vpc_cidr, k))
            => results[k].kind = "AllocationError"

\* C3: for every valid /16 base block, the results for offsets 1..4 are /24
\* blocks, pairwise disjoint, each wholly contained in the base block.
C3_SubnetsDisjointAndContained ==
    IsValid16(vpc_cidr) =>
        \A j, k \in DOMAIN results \cap 1..4 :
            /\ results[k].kind = "ok"
            /\ results[k].value.p = 24
            /\ results[k].value.o[4] = 0
            /\ Within(results[k].value, vpc_cidr)
            /\ j # k => Disjoint(results[j].value, results[k].value)

C3_Witness ==
    /\ IsValid16(vpc_cidr)
    /\ 1..4 \subseteq DOMAIN results
    /\ \A k \in 1..4 : results[k].kind = "ok"

\* C4: for a base block a.b.0.0/16 and an offset k in 0..255 the result is
\* exactly a.b.k.0/24 (zero-based, ascending address order); in particular
\* offset 1 of 10.0.0.0/16 is 10.0.1.0/24 and offset 4 is 10.0.4.0/24.
C4_IndexStable ==
    IsValid16(vpc_cidr) =>
        \A k \in DOMAIN results \cap 0..255 :
            /\ results[k].kind = "ok"
            /\ results[k].value =
                 [o |-> <<vpc_cidr.o[1], vpc_cidr.o[2], k, 0>>, p |-> 24]

C4_Witness ==
    /\ vpc_cidr = [o |-> <<10, 0, 0, 0>>, p |-> 16]
    /\ {0, 1, 4, 255} \subseteq DOMAIN results
    /\ results[1] = [kind |-> "ok", value |-> [o |-> <<10, 0, 1, 0>>, p |-> 24]]
    /\ results[4] = [kind |-> "ok", value |-> [o |-> <<10, 0, 4, 0>>, p |-> 24]]

----------------------------------------------------------------------------
(* Properties of the environment builds, checked under Spec *)

Declared == { resources[i] : i \in DOMAIN resources }

OfEnv(e) == { r \in Declared : r.owner = e }

Named(n) == { r \in Declared : r.name = n }

Targets(r) == { ref.target : ref \in r.refs }

DependsOn(r) == Targets(r) \cup r.depends_on

RefTargets(r, attr) == { ref.target : ref \in { x \in r.refs : x.attr = attr } }

Range(seq) == { seq[i] : i \in DOMAIN seq }

\* create_vpc_environment has returned for environment e.
Completed(e) == env > e \/ (env = e /\ pc \in {"returned", "done"})

ErrorTaxonomy == {"AllocationError", "CapacityError", "DeclarationError"}

\* C1: when the availability-zone query returned fewer than two zones, the
\* build fails with a CapacityError and no resource of the environment has
\* been declared when the error is raised.
C1_CapacityErrorBeforeAnyResource ==
    (pc = "aborted" /\ error.at # "vpc" /\ Len(zones) < 2)
        => (error.type = "CapacityError" /\ OfEnv(env) = {})

\* Route tables of environment e holding a default route to an Internet Gateway.
InternetTables(e) ==
    { t \in OfEnv(e) :
        /\ t.kind = "RouteTable"
        /\ \E route \in Range(t.routes) :
             /\ route.cidr_block = AnyCidr
             /\ \E g \in Named(route.gateway_id) : g.kind = "InternetGateway" }

\* Route resources adding a default route to the route table named table.
DefaultRoutes(table) ==
    { r \in Declared :
        /\ r.kind = "Route"
        /\ table \in RefTargets(r, "route_table_id")
        /\ r.destination_cidr_block = AnyCidr }

\* Availability zones of the subnets the NAT Gateway named nat sits in.
NatZones(nat) ==
    { sn.availability_zone :
        sn \in UNION { Named(t) :
                 t \in UNION { RefTargets(g, "subnet_id") :
                          g \in { x \in Named(nat) : x.kind = "NatGateway" } } } }

NatSubnetsArePublic(e, nat) ==
    \A g \in Named(nat) : \A t \in RefTargets(g, "subnet_id") : \A sn \in Named(t) :
        /\ sn.kind = "Subnet"
        /\ sn.map_public_ip_on_launch
        /\ \E a \in OfEnv(e) :
             /\ a.kind = "RouteTableAssociation"
             /\ t \in RefTargets(a, "subnet_id")
             /\ \E tab \in InternetTables(e) : tab.name \in RefTargets(a, "route_table_id")

\* C5: after a completed build the private route table has exactly two
\* default routes, they reference two different NAT Gateways, and the two NAT
\* Gateways sit in public subnets of two different availability zones.
C5_TwoDefaultRoutesDistinctNatsAndZones ==
    \A e \in DOMAIN Environments :
        Completed(e) =>
            \E rt \in OfEnv(e) :
                /\ rt.kind = "RouteTable"
                /\ rt \notin InternetTables(e)
                /\ rt.routes = <<>>
                /\ LET routes == DefaultRoutes(rt.name)
                       nats == UNION { RefTargets(r, "nat_gateway_id") : r \in routes }
                   IN  /\ Cardinality(routes) = 2
                       /\ \A r \in routes : Cardinality(RefTargets(r, "nat_gateway_id")) = 1
                       /\ Cardinality(nats) = 2
                       /\ \A n \in nats :
                            /\ \E g \in OfEnv(e) : g.kind = "NatGateway" /\ g.name = n
                            /\ NatSubnetsArePublic(e, n)
                            /\ Cardinality(NatZones(n)) = 1
                       /\ Cardinality(UNION { NatZones(n) : n \in nats }) = 2

C5_Witness ==
    /\ pc = "done"
    /\ Len(zones) >= 2
    /\ Cardinality({ r \in Declared : r.kind = "Route" }) = 4

\* C6: if a declaration fails, the build aborts: the program takes no further
\* step (no later resource is declared, nothing is retried), none of the
\* outputs of that environment is exported, and the error is one of
\* AllocationError, CapacityError, DeclarationError.
C6_DeclarationFailureAborts ==
    [][ /\ pc # "aborted"
        /\ pc' = "aborted" =>
             /\ resources' = resources
             /\ { x \in Range(exports') : x.owner = env' } = {}
             /\ error'.type \in ErrorTaxonomy ]_vars

RECURSIVE Peel(_)
\* What is left of the set S of resource names after repeatedly removing
\* the names that depend on no name left in S: empty iff S holds no cycle.
Peel(S) ==
    LET free == { n \in S : \A r \in Named(n) : DependsOn(r) \cap S = {} }
    IN  IF free = {} THEN S ELSE Peel(S \ free)

\* C7: the dependency graph (attribute references and depends_on lists) is
\* acyclic, every resource is declared after all resources it depends on,
\* each NAT Gateway depends explicitly on the Internet Gateway of its
\* environment, and each private default route depends on the NAT Gateway it
\* points at.
C7_DependencyGraph ==
    /\ \A i \in DOMAIN resources : \A d \in DependsOn(resources[i]) :
         \E j \in 1..(i - 1) : resources[j].name = d
    /\ Peel({ r.name : r \in Declared }) = {}
    /\ \A g \in Declared :
         g.kind = "NatGateway" =>
            \E igw \in OfEnv(g.owner) :
                igw.kind = "InternetGateway" /\ igw.name \in g.depends_on
    /\ \A r \in Declared :
         (r.kind = "Route" /\ r.destination_cidr_block = AnyCidr) =>
            /\ RefTargets(r, "nat_gateway_id") # {}
            /\ RefTargets(r, "nat_gateway_id") \subseteq r.depends_on
            /\ \A n \in RefTargets(r, "nat_gateway_id") :
                 \E g \in Named(n) : g.kind = "NatGateway"

C7_Witness ==
    /\ pc = "done"
    /\ Cardinality({ r \in Declared : r.kind = "NatGateway" }) = 4
    /\ Cardinality({ r \in Declared : r.kind = "Route" }) = 4

\* C8: the public security group's ingress rules are exactly tcp 80 and
\* tcp 443 from 0.0.0.0/0; the private security group's ingress rules are
\* exactly all ports from the environment's own base block, never 0.0.0.0/0
\* and never the other environment's block.
C8_SecurityGroupIngress ==
    \A e \in DOMAIN Environments :
        Completed(e) =>
            LET groups == { r \in OfEnv(e) : r.kind = "SecurityGroup" }
                public == { r \in groups : r.name = Environments[e].name \o "-public-sg" }
                private == { r \in groups : r.name = Environments[e].name \o "-private-sg" }
                own == Environments[e].cidr_block
            IN  /\ Cardinality(groups) = 2
                /\ Cardinality(public) = 1
                /\ Cardinality(private) = 1
                /\ \A g \in public :
                     /\ Len(g.ingress) = 2
                     /\ Range(g.ingress) =
                          { [protocol |-> "tcp", from_port |-> 80, to_port |-> 80,
                             cidr_blocks |-> << [o |-> <<0, 0, 0, 0>>, p |-> 0] >>],
                            [protocol |-> "tcp", from_port |-> 443, to_port |-> 443,
                             cidr_blocks |-> << [o |-> <<0, 0, 0, 0>>, p |-> 0] >>] }
                /\ \A g \in private :
                     /\ Len(g.ingress) = 1
                     /\ g.ingress[1] = [protocol |-> "tcp", from_port |-> 0,
                                        to_port |-> 65535, cidr_blocks |-> <<own>>]
                     /\ g.ingress[1].cidr_blocks[1] # [o |-> <<0, 0, 0, 0>>, p |-> 0]
                     /\ \A f \in DOMAIN Environments \ {e} :
                          g.ingress[1].cidr_blocks[1] # Environments[f].cidr_block

C8_Witness ==
    /\ pc = "done"
    /\ Cardinality({ r \in Declared : r.kind = "SecurityGroup" }) = 4

ExpectedExportKeys ==
    << {"bwiseth_dev_vpc_id", "bwiseth_dev_public_subnets",
        "bwiseth_dev_private_subnets", "bwiseth_dev_nat_gateway_ids"},
       {"bwiseth_prod_vpc_id", "bwiseth_prod_public_subnets",
        "bwiseth_prod_private_subnets", "bwiseth_prod_nat_gateway_ids"} >>

\* C9: the two environments share no logical resource name, no resource of
\* one references a resource of the other, each completed environment
\* exports exactly its own four keys, and no export key is written twice.
C9_EnvironmentsIsolated ==
    /\ \A i, j \in DOMAIN resources : i # j => resources[i].name # resources[j].name
    /\ \A r \in Declared : \A d \in DependsOn(r) :
         /\ Named(d) # {}
         /\ \A t \in Named(d) : t.owner = r.owner
    /\ \A i, j \in DOMAIN exports : i # j => exports[i].key # exports[j].key
    /\ \A x \in Range(exports) : \A v \in Range(x.value) :
         \E r \in OfEnv(x.owner) : r.name = v
    /\ \A e \in DOMAIN Environments :
         Completed(e) =>
            /\ { x.key : x \in { y \in Range(exports) : y.owner = e } }
                 = ExpectedExportKeys[e]
            /\ Cardinality({ i \in DOMAIN exports : exports[i].owner = e }) = 4

C9_Witness ==
    /\ pc = "done"
    /\ Len(exports) = 8
    /\ OfEnv(1) # {}
    /\ OfEnv(2) # {}

\* C10: after a completed build each of the four subnets is associated with
\* exactly one route table, the public subnets with the one table that holds
\* a default route to the Internet Gateway and the private subnets with the
\* private table, and public subnet i and private subnet i share a zone.
C10_SubnetAssociations ==
    \A e \in DOMAIN Environments :
        Completed(e) =>
            LET subs == { r \in OfEnv(e) : r.kind = "Subnet" }
                pubs == { r \in subs : r.map_public_ip_on_launch }
                privs == subs \ pubs
                assocs(sn) == { a \in Declared :
                                  /\ a.kind = "RouteTableAssociation"
                                  /\ sn.name \in RefTargets(a, "subnet_id") }
                tables(sn) == UNION { RefTargets(a, "route_table_id") : a \in assocs(sn) }
                internet == { t.name : t \in InternetTables(e) }
                other == { t.name : t \in { r \in OfEnv(e) : r.kind = "RouteTable" } } \ internet
                zone(n) == { sn.availability_zone : sn \in { r \in subs : r.name = n } }
            IN  /\ Cardinality(subs) = 4
                /\ Cardinality(pubs) = 2
                /\ Cardinality(privs) = 2
                /\ Cardinality(internet) = 1
                /\ Cardinality(other) = 1
                /\ \A sn \in subs : Cardinality(assocs(sn)) = 1 /\ Cardinality(tables(sn)) = 1
                /\ \A sn \in pubs : tables(sn) = internet
                /\ \A sn \in privs : tables(sn) = other /\ tables(sn) \cap internet = {}
                /\ \A i \in {"1", "2"} :
                     /\ Cardinality(zone(Environments[e].name \o "-public-subnet" \o i)) = 1
                     /\ zone(Environments[e].name \o "-public-subnet" \o i)
                          = zone(Environments[e].name \o "-private-subnet" \o i)

C10_Witness ==
    /\ pc = "done"
    /\ Cardinality({ r \in Declared : r.kind = "RouteTableAssociation" }) = 8

====
